---- MODULE Spec2Model ----
(***************************************************************************)
(* Model of the two generators of obm-coe5:                                *)
(*   scripts/generate_cost_mod.py         (the flat generator)             *)
(*   scripts/generate_tiered_cost_mod.py  (the tiered generator)           *)
(* Python's None is the empty tuple and a present value x is <<x>>.        *)
(* A Python dict whose iteration order matters is a sequence of [k, v]     *)
(* records in insertion order; a JSON object read from the configuration   *)
(* is a function from its key strings.                                     *)
(***************************************************************************)
EXTENDS Integers, Sequences, FiniteSets, TLC

VARIABLES
    prog,            \* which entry point runs: "flat", "tiered", or a parser alone
    pc,              \* position inside the running function
    argv,            \* sys.argv[1:] of the run
    fs,              \* the file system the run sees (existence of the inputs)
    lines,           \* the lines the open data file has yielded so far
    rituals,         \* parse_ritual_data: rituals
    current_ritual,  \* parse_ritual_data: current_ritual
    ritpow_names,    \* parse_ritual_data: ritpow_names
    monsters,        \* parse_monster_data: monsters
    current_monster, \* parse_monster_data: current_monster
    config,          \* main: config (json.load), <<>> before it is loaded
    idx,             \* number of loop iterations done in the running pass
    percentage,      \* generate_mod_file: percentage of the last iteration
    current_ritpow,  \* generate_mod_file: current_ritpow (<<>> is "no header yet")
    modified_count,  \* generate_mod_file / generate_spawn_modifications
    skipped_count,   \* generate_mod_file
    spawn_modified,  \* main: spawn_modified, <<>> while unassigned
    output,          \* the output file: <<>> while absent, else <<its lines>>
    exit_code        \* <<>> while running, <<n>> after sys.exit(n) / return

vars == <<prog, pc, argv, fs, lines, rituals, current_ritual, ritpow_names,
          monsters, current_monster, config, idx, percentage, current_ritpow,
          modified_count, skipped_count, spawn_modified, output, exit_code>>

None == <<>>
Some(x) == <<x>>
Get(o) == o[1]

\* ---------------------------------------------------------------- bounds
MaxLines == 4        \* length of a data file read by a parser run alone
MaxRituals == 3      \* ritual blocks in a data file given to a generator

\* ------------------------------------------------------- text of a line
(* A source line is `[lead]kw args [# cmt]`.  lead: the line starts with   *)
(* white space.  name: the double-quoted name of a record-start line,      *)
(* hash: that name contains a '#'.  a, b: the integers after the keyword.  *)
(* cmt: None when the line holds no '#', else the stripped text after the  *)
(* first '#', which is separated from it by white space.                   *)
Line(lead, kw, name, hash, a, b, cmt) ==
    [lead |-> lead, kw |-> kw, name |-> name, hash |-> hash,
     a |-> a, b |-> b, cmt |-> cmt]

NewRitualLine(n)   == Line(FALSE, "newritual", n, FALSE, None, None, None)
NewMonsterLine(n)  == Line(FALSE, "newmonster", n, FALSE, None, None, None)
CostLine(t, n)     == Line(FALSE, "cost", "", FALSE, Some(t), Some(n), None)
RitpowLine(i, n)   == Line(FALSE, "ritpow", "", FALSE, Some(i), None, Some(n))
LevelLine(n)       == Line(FALSE, "level", "", FALSE, Some(n), None, None)
SpawnLine(t, v, c) == Line(FALSE, t, "", FALSE, Some(v), None, c)
OtherLine          == Line(FALSE, "other", "", FALSE, None, None, Some("note"))

SPAWN_TRAITS == <<"spawnmon", "spawn1d6mon", "satyrspawn", "harpyspawn",
                  "centspawn", "minospawn", "motherspawn">>

\* ------------------------------------------------------------ Python dict
DictHas(d, k) == \E i \in 1..Len(d) : d[i].k = k
DictGet(d, k) == d[CHOOSE i \in 1..Len(d) : d[i].k = k].v
\* d[k] = v: an existing key keeps its place, a new one goes last
DictSet(d, k, v) ==
    IF DictHas(d, k)
    THEN [i \in 1..Len(d) |-> IF d[i].k = k THEN [k |-> k, v |-> v] ELSE d[i]]
    ELSE Append(d, [k |-> k, v |-> v])
DictKeys(d) == {d[i].k : i \in 1..Len(d)}

\* ------------------------------------------ tiered parser: parse_ritual_data
\* re.match(r'newritual\s+"([^"]+)"', line): anchored at the first character
TieredIsNewRitual(l) == ~l.lead /\ l.kw = "newritual"
\* re.match(r'ritpow\s+(\d+)\s+#\s+(.+)', line)
TieredIsRitpow(l) == ~l.lead /\ l.kw = "ritpow" /\ l.a # None /\ l.cmt # None
\* re.match(r'level\s+(\d+)', line.split('#')[0])
TieredIsLevel(l) == ~l.lead /\ l.kw = "level" /\ l.a # None
\* re.match(r'cost\s+(\d+)\s+(\d+)', line.split('#')[0])
TieredIsCost(l) == ~l.lead /\ l.kw = "cost" /\ l.a # None /\ l.b # None

NewRitual(name) ==
    [name |-> name, costs |-> <<>>, ritpow |-> None, ritpow_name |-> None,
     level |-> None]

AppendAlways(result, current) ==
    IF current # None THEN Append(result, Get(current)) ELSE result
\* `if current and current['costs']: result.append(current)`
AppendIfCosts(result, current) ==
    IF current # None /\ Get(current).costs # <<>>
    THEN Append(result, Get(current)) ELSE result

\* ritpow_names[ritpow_num] = ritpow_name
RegisterRitpowFirstWins(names, num, name) ==
    IF DictHas(names, num) THEN names ELSE DictSet(names, num, name)
RegisterRitpow(names, num, name) == DictSet(names, num, name)

\* one iteration of `for line in f` over the state [rituals, current, names]
TieredRitualLine(st, l) ==
    IF TieredIsNewRitual(l)
    THEN [rituals |-> AppendIfCosts(st.rituals, st.current),
          current |-> Some(NewRitual(l.name)),
          names |-> st.names]
    ELSE IF st.current = None THEN st
    ELSE IF TieredIsRitpow(l)
    THEN [rituals |-> st.rituals,
          current |-> Some([Get(st.current) EXCEPT !.ritpow = l.a,
                                                   !.ritpow_name = l.cmt]),
          names |-> RegisterRitpow(st.names, Get(l.a), Get(l.cmt))]
    ELSE IF TieredIsLevel(l)
    THEN [st EXCEPT !.current = Some([Get(st.current) EXCEPT !.level = l.a])]
    ELSE IF TieredIsCost(l)
    THEN [st EXCEPT !.current = Some([Get(st.current) EXCEPT !.costs =
              Append(@, [type |-> Get(l.a), amount |-> Get(l.b)])])]
    ELSE st

\* the statement after the loop
TieredRitualEnd(st) ==
    [rituals |-> AppendIfCosts(st.rituals, st.current),
     current |-> st.current, names |-> st.names]

RECURSIVE TieredRitualFold(_, _)
TieredRitualFold(st, ls) ==
    IF ls = <<>> THEN st
    ELSE TieredRitualFold(TieredRitualLine(st, Head(ls)), Tail(ls))

\* parse_ritual_data(filepath) on a file holding the lines ls
tiered_parse_ritual_data(ls) ==
    TieredRitualEnd(TieredRitualFold(
        [rituals |-> <<>>, current |-> None, names |-> <<>>], ls))

\* ---------------------------------------- tiered parser: parse_monster_data
\* re.match(r'newmonster\s+"([^"]+)"', line)
IsNewMonster(l) == ~l.lead /\ l.kw = "newmonster"
\* re.match(rf'{trait}\s+(\d+)', line.split('#')[0]) for a trait of SPAWN_TRAITS
IsSpawn(l) ==
    /\ ~l.lead
    /\ \E i \in 1..Len(SPAWN_TRAITS) : SPAWN_TRAITS[i] = l.kw
    /\ l.a # None

\* comment = line.split('#', 1)[1].strip() if '#' in line else ''
SpawnComment(l) == IF l.cmt # None THEN Get(l.cmt) ELSE ""

AppendIfSpawns(result, current) ==
    IF current # None /\ Get(current).spawns # <<>>
    THEN Append(result, Get(current)) ELSE result

MonsterLine(st, l) ==
    IF IsNewMonster(l)
    THEN [monsters |-> AppendIfSpawns(st.monsters, st.current),
          current |-> Some([name |-> l.name, spawns |-> <<>>])]
    ELSE IF st.current = None THEN st
    ELSE IF IsSpawn(l)
    THEN [st EXCEPT !.current = Some([Get(st.current) EXCEPT !.spawns =
              Append(@, [trait |-> l.kw, value |-> Get(l.a),
                         comment |-> SpawnComment(l)])])]
    ELSE st

MonsterEnd(st) ==
    [monsters |-> AppendIfSpawns(st.monsters, st.current), current |-> st.current]

RECURSIVE MonsterFold(_, _)
MonsterFold(st, ls) ==
    IF ls = <<>> THEN st ELSE MonsterFold(MonsterLine(st, Head(ls)), Tail(ls))

parse_monster_data(ls) ==
    MonsterEnd(MonsterFold([monsters |-> <<>>, current |-> None], ls)).monsters

\* ------------------------------------------- flat parser: parse_ritual_data
\* line_stripped = line.split('#')[0].strip(): leading white space is gone,
\* and so is everything from the first '#', a '#' inside the quoted name included
FlatIsNewRitual(l) == l.kw = "newritual" /\ ~l.hash
FlatIsCost(l) == l.kw = "cost" /\ l.a # None /\ l.b # None

FlatRitualLine(st, l) ==
    IF FlatIsNewRitual(l)
    THEN [rituals |-> AppendIfCosts(st.rituals, st.current),
          current |-> Some([name |-> l.name, costs |-> <<>>])]
    ELSE IF st.current = None THEN st
    ELSE IF FlatIsCost(l)
    THEN [st EXCEPT !.current = Some([Get(st.current) EXCEPT !.costs =
              Append(@, [type |-> Get(l.a), amount |-> Get(l.b)])])]
    ELSE st

FlatRitualEnd(st) ==
    [rituals |-> AppendIfCosts(st.rituals, st.current), current |-> st.current]

RECURSIVE FlatRitualFold(_, _)
FlatRitualFold(st, ls) ==
    IF ls = <<>> THEN st
    ELSE FlatRitualFold(FlatRitualLine(st, Head(ls)), Tail(ls))

flat_parse_ritual_data(ls) ==
    FlatRitualEnd(FlatRitualFold([rituals |-> <<>>, current |-> None], ls)).rituals

\* ------------------------------------------------ a parser run on its own
(* The data file is read one line at a time; each line is any line of the  *)
(* alphabet.  `lines` keeps what was read, so that the result can be       *)
(* compared with the file.                                                  *)
RitualAlphabet ==
    {NewRitualLine("R1"), NewRitualLine("R2"),
     CostLine(0, 10), CostLine(1, 1),
     RitpowLine(3, "A"), RitpowLine(3, "B"), RitpowLine(4, "A"),
     LevelLine(5), OtherLine,
     \* `cost 1 5 # iron`, `  cost 2 7` and `newritual "R#3"`
     Line(FALSE, "cost", "", FALSE, Some(1), Some(5), Some("iron")),
     Line(TRUE, "cost", "", FALSE, Some(2), Some(7), None),
     Line(FALSE, "newritual", "R#3", TRUE, None, None, None)}

MonsterAlphabet ==
    {NewMonsterLine("M1"), NewMonsterLine("M2"),
     SpawnLine("spawnmon", 5, None), SpawnLine("motherspawn", 2, Some("hydra")),
     CostLine(0, 10), OtherLine}

Idle ==
    /\ fs = [ritual_data |-> "unknown", monster_data |-> "unknown",
             config |-> "unknown", base |-> "unknown"]
    /\ lines = <<>>
    /\ rituals = <<>> /\ current_ritual = None /\ ritpow_names = <<>>
    /\ monsters = <<>> /\ current_monster = None
    /\ config = None /\ idx = 0 /\ percentage = None /\ current_ritpow = None
    /\ modified_count = 0 /\ skipped_count = 0 /\ spawn_modified = None
    /\ output = None /\ exit_code = None

ParseInit ==
    /\ prog \in {"tiered_parse_ritual_data", "parse_monster_data",
                 "flat_parse_ritual_data"}
    /\ pc = "reading"
    /\ argv = <<>>
    /\ Idle

ParserUnchanged ==
    UNCHANGED <<prog, argv, fs, config, idx, percentage, current_ritpow,
                modified_count, skipped_count, spawn_modified, output, exit_code>>

\* tiered parse_ritual_data: one iteration of the loop over the file
TieredReadRitualLine ==
    /\ prog = "tiered_parse_ritual_data" /\ pc = "reading"
    /\ Len(lines) < MaxLines
    /\ \E l \in RitualAlphabet :
         LET st == TieredRitualLine([rituals |-> rituals,
                       current |-> current_ritual, names |-> ritpow_names], l)
         IN /\ lines' = Append(lines, l)
            /\ rituals' = st.rituals
            /\ current_ritual' = st.current
            /\ ritpow_names' = st.names
    /\ UNCHANGED <<pc, monsters, current_monster>>
    /\ ParserUnchanged

\* tiered parse_ritual_data: end of file, the last ritual, return
TieredRitualEOF ==
    /\ prog = "tiered_parse_ritual_data" /\ pc = "reading"
    /\ LET st == TieredRitualEnd([rituals |-> rituals,
                     current |-> current_ritual, names |-> ritpow_names])
       IN rituals' = st.rituals
    /\ pc' = "returned"
    /\ UNCHANGED <<lines, current_ritual, ritpow_names, monsters, current_monster>>
    /\ ParserUnchanged

ReadMonsterLine ==
    /\ prog = "parse_monster_data" /\ pc = "reading"
    /\ Len(lines) < MaxLines
    /\ \E l \in MonsterAlphabet :
         LET st == MonsterLine([monsters |-> monsters,
                                current |-> current_monster], l)
         IN /\ lines' = Append(lines, l)
            /\ monsters' = st.monsters
            /\ current_monster' = st.current
    /\ UNCHANGED <<pc, rituals, current_ritual, ritpow_names>>
    /\ ParserUnchanged

MonsterEOF ==
    /\ prog = "parse_monster_data" /\ pc = "reading"
    /\ monsters' = MonsterEnd([monsters |-> monsters,
                               current |-> current_monster]).monsters
    /\ pc' = "returned"
    /\ UNCHANGED <<lines, current_monster, rituals, current_ritual, ritpow_names>>
    /\ ParserUnchanged

FlatReadRitualLine ==
    /\ prog = "flat_parse_ritual_data" /\ pc = "reading"
    /\ Len(lines) < MaxLines
    /\ \E l \in RitualAlphabet :
         LET st == FlatRitualLine([rituals |-> rituals,
                                   current |-> current_ritual], l)
         IN /\ lines' = Append(lines, l)
            /\ rituals' = st.rituals
            /\ current_ritual' = st.current
    /\ UNCHANGED <<pc, ritpow_names, monsters, current_monster>>
    /\ ParserUnchanged

FlatRitualEOF ==
    /\ prog = "flat_parse_ritual_data" /\ pc = "reading"
    /\ rituals' = FlatRitualEnd([rituals |-> rituals,
                                 current |-> current_ritual]).rituals
    /\ pc' = "returned"
    /\ UNCHANGED <<lines, current_ritual, ritpow_names, monsters, current_monster>>
    /\ ParserUnchanged

ParseNext ==
    \/ TieredReadRitualLine
    \/ TieredRitualEOF
    \/ ReadMonsterLine
    \/ MonsterEOF
    \/ FlatReadRitualLine
    \/ FlatRitualEOF

SpecParse == ParseInit /\ [][ParseNext]_vars

\* ---------------------------------------------- what a parser should return
\* the record-start lines of ls, and the lines that belong to the one at i
StartsOf(ls, IsStart(_)) == {i \in 1..Len(ls) : IsStart(ls[i])}
ExtentEnd(ls, IsStart(_), i) ==
    IF \E j \in StartsOf(ls, IsStart) : j > i
    THEN (CHOOSE j \in StartsOf(ls, IsStart) :
            j > i /\ \A k \in StartsOf(ls, IsStart) : k > i => j <= k) - 1
    ELSE Len(ls)
AttrLinesOf(ls, IsStart(_), IsAttr(_), i) ==
    SelectSeq(SubSeq(ls, i + 1, ExtentEnd(ls, IsStart, i)), IsAttr)
\* the starts that received an attribute line, and the k-th of them
KeptStarts(ls, IsStart(_), IsAttr(_)) ==
    {i \in StartsOf(ls, IsStart) : AttrLinesOf(ls, IsStart, IsAttr, i) # <<>>}
KthKept(ls, IsStart(_), IsAttr(_), k) ==
    CHOOSE i \in KeptStarts(ls, IsStart, IsAttr) :
        Cardinality({j \in KeptStarts(ls, IsStart, IsAttr) : j <= i}) = k

CostOfLine(l) == [type |-> Get(l.a), amount |-> Get(l.b)]
SpawnOfLine(l) == [trait |-> l.kw, value |-> Get(l.a), comment |-> SpawnComment(l)]
MapSeq(s, F(_)) == [i \in 1..Len(s) |-> F(s[i])]

RitualsAsExpected ==
    /\ Len(rituals) = Cardinality(KeptStarts(lines, TieredIsNewRitual, TieredIsCost))
    /\ \A k \in 1..Len(rituals) :
         LET i == KthKept(lines, TieredIsNewRitual, TieredIsCost, k)
         IN /\ rituals[k].name = lines[i].name
            /\ rituals[k].costs =
                 MapSeq(AttrLinesOf(lines, TieredIsNewRitual, TieredIsCost, i),
                        CostOfLine)

MonstersAsExpected ==
    /\ Len(monsters) = Cardinality(KeptStarts(lines, IsNewMonster, IsSpawn))
    /\ \A k \in 1..Len(monsters) :
         LET i == KthKept(lines, IsNewMonster, IsSpawn, k)
         IN /\ monsters[k].name = lines[i].name
            /\ monsters[k].spawns =
                 MapSeq(AttrLinesOf(lines, IsNewMonster, IsSpawn, i), SpawnOfLine)

(* C5: after parsing any sequence of lines the result holds exactly the     *)
(* records that were started by a record-start line and received at least   *)
(* one attribute line before the next record-start line or the end of       *)
(* input, in file order, each with exactly its attribute lines in order;    *)
(* no record of the result is without attributes, at any time; attribute    *)
(* lines before the first record-start line belong to no record.            *)
C5_DropIfEmptyAndOrder ==
    /\ \A k \in 1..Len(rituals) : rituals[k].costs # <<>>
    /\ \A k \in 1..Len(monsters) : monsters[k].spawns # <<>>
    /\ (prog = "tiered_parse_ritual_data" /\ pc = "returned") => RitualsAsExpected
    /\ (prog = "parse_monster_data" /\ pc = "returned") => MonstersAsExpected

\* a file with an attribute before the first record, a dropped record and a
\* record finalized by the end of input
C5_Witness ==
    /\ pc = "returned"
    /\ prog \in {"tiered_parse_ritual_data", "parse_monster_data"}
    /\ Len(lines) = 4
    /\ lines[1].kw \in {"cost", "spawnmon"}
    /\ lines[2].kw \in {"newritual", "newmonster"}
    /\ lines[3].kw \in {"newritual", "newmonster"}
    /\ lines[4].kw \in {"cost", "spawnmon"}
    /\ Len(rituals) + Len(monsters) = 1

\* the ritpow lines of ls that lie inside a record
RitpowLinesIn(ls) ==
    {i \in 1..Len(ls) : /\ TieredIsRitpow(ls[i])
                        /\ \E j \in 1..(i - 1) : TieredIsNewRitual(ls[j])}
RitpowLinesOf(ls, id) == {i \in RitpowLinesIn(ls) : Get(ls[i].a) = id}
FirstOf(S) == CHOOSE i \in S : \A j \in S : i <= j
LastOf(S) == CHOOSE i \in S : \A j \in S : j <= i
SeenIds(ls) == {Get(ls[i].a) : i \in RitpowLinesIn(ls)}

(* C7 as stated: the Category Name Table maps every category id to the name *)
(* of the first ritpow line seen for that id inside a record.               *)
C7_FirstWriteWins ==
    prog = "tiered_parse_ritual_data" =>
        /\ DictKeys(ritpow_names) = SeenIds(lines)
        /\ \A id \in SeenIds(lines) :
             DictGet(ritpow_names, id) =
                 Get(lines[FirstOf(RitpowLinesOf(lines, id))].cmt)

(* C7 as the code has it: the Category Name Table maps every category id to *)
(* the name of the last ritpow line seen for that id inside a record; a     *)
(* later ritpow line with the same id and another name replaces the entry.  *)
C7_LastWriteWins ==
    prog = "tiered_parse_ritual_data" =>
        /\ DictKeys(ritpow_names) = SeenIds(lines)
        /\ \A id \in SeenIds(lines) :
             DictGet(ritpow_names, id) =
                 Get(lines[LastOf(RitpowLinesOf(lines, id))].cmt)

\* one id was given two names
C7_Witness ==
    /\ prog = "tiered_parse_ritual_data"
    /\ \E id \in SeenIds(lines) :
         /\ lines[FirstOf(RitpowLinesOf(lines, id))].cmt
              # lines[LastOf(RitpowLinesOf(lines, id))].cmt
         /\ DictGet(ritpow_names, id)
              = Get(lines[LastOf(RitpowLinesOf(lines, id))].cmt)

\* ===================================================== the two generators
\* str(n) of a non-negative integer
Digit == <<"0", "1", "2", "3", "4", "5", "6", "7", "8", "9">>
RECURSIVE Str(_)
Str(n) == IF n < 10 THEN Digit[n + 1] ELSE Str(n \div 10) \o Digit[(n % 10) + 1]
\* int(s) of a key string of the configuration
IntOf(s) == CHOOSE n \in 0..999 : Str(n) = s

RESOURCE_TYPES ==
    <<"Gold", "Iron", "Herbs", "Fungus", "Sacrifices", "Hands", "Blood",
      "Prisoners", "Unburied", "Coins", "Silk", "Relics", "Gems",
      "Monster Parts", "Corpses (humanoid)", "Gems", "Entrails", "Corpses",
      "Hearts", "Skulls">>
\* RESOURCE_TYPES.get(resource_type, f"Resource {resource_type}"), keys 0..19
ResourceName(t) ==
    IF t + 1 \in DOMAIN RESOURCE_TYPES THEN RESOURCE_TYPES[t + 1]
    ELSE "Resource " \o Str(t)

(* new = max(1, math.ceil(original * percentage / 100)).  A percentage is   *)
(* the fraction num/den: an integer of the configuration has den 1, the     *)
(* float of the flat generator's argument has the den of its decimal.       *)
CeilDiv(n, d) == IF n % d = 0 THEN n \div d ELSE (n \div d) + 1
FloorDiv(n, d) == n \div d
Max(a, b) == IF a >= b THEN a ELSE b
ScaleFloor(original, num, den) == Max(1, FloorDiv(original * num, 100 * den))
Scale(original, num, den) == Max(1, CeilDiv(original * num, 100 * den))

\* ------------------------------------------------------------ output lines
Out(t, s, a, b, c, x) == [t |-> t, s |-> s, a |-> a, b |-> b, c |-> c, x |-> x]
Comment(s) == Out("comment", s, 0, 0, 0, "")
Blank == Out("blank", "", 0, 0, 0, "")
Rule == Comment("# ==================================================")
\* f"cost {type} {new}  # {new} {resource_name} (was {original})\n"
CostOut(type, new, original) == Out("cost", ResourceName(type), type, new, original, "")
SelectRitualOut(name) == Out("selectritual", name, 0, 0, 0, "")
SelectMonsterOut(name) == Out("selectmonster", name, 0, 0, 0, "")
\* f"\n# --- {ritpow_name} ({percentage}%) ---\n\n" is Blank, this line, Blank
SectionOut(name, pct) == Out("section", name, pct, 0, 0, "")
\* f"{trait} {new}  # was {original}; {comment}\n" or f"{trait} {new}  # was {original}\n"
SpawnOut(trait, new, original, comment) == Out("spawn", trait, new, original, 0, comment)
\* base.read(): the whole content of the base mod, as one piece
BaseOut(content) == Out("base", content, 0, 0, 0, "")

\* -------------------------------------------------- configuration documents
\* config.get(key): None when the key is absent
Cfg(tiers, class_tiers, default, ritpow_modifiers, level_modifiers, spawn_modifier, base_mod) ==
    [tiers |-> tiers, class_tiers |-> class_tiers, default |-> default,
     ritpow_modifiers |-> ritpow_modifiers, level_modifiers |-> level_modifiers,
     spawn_modifier |-> spawn_modifier, base_mod |-> base_mod]
EmptyDict == [k \in {} |-> 0]
\* config.get(key, fallback)
GetOr(o, fallback) == IF o = None THEN fallback ELSE Get(o)

\* sorted(...) of the keys of a dict: strings in the order of StrOrder,
\* and `key=lambda x: int(x[0])` in the order of the integers
StrOrder == <<"A", "B", "S", "T", "X">>
StrRank(s) == CHOOSE i \in 1..Len(StrOrder) : StrOrder[i] = s
RECURSIVE SortedBy(_, _)
SortedBy(S, rank) ==
    IF S = {} THEN <<>>
    ELSE LET m == CHOOSE x \in S : \A y \in S : rank[x] <= rank[y]
         IN <<m>> \o SortedBy(S \ {m}, rank)
SortedStrings(S) == SortedBy(S, [x \in S |-> StrRank(x)])
SortedIntKeys(S) == SortedBy(S, [x \in S |-> IntOf(x)])

\* ------------------------------------------------ tiered: process_config
IsTierForm(c) == c.tiers # None /\ c.class_tiers # None

\* name_to_id = {name: str(num) for num, name in ritpow_names.items()}
RECURSIVE NameToId(_)
NameToId(names) ==
    IF names = <<>> THEN <<>>
    ELSE DictSet(NameToId(SubSeq(names, 1, Len(names) - 1)),
                 names[Len(names)].v, Str(names[Len(names)].k))

\* the loop over class_tiers.items(): ritpow_modifiers[name_to_id[class_name]] =
\* tiers.get(tier, 100) for the class names that name_to_id knows
TierModifiers(tiers, class_tiers, names) ==
    LET n2i == NameToId(names)
        known == {cn \in DOMAIN class_tiers : DictHas(n2i, cn)}
        ClassOf(id) == CHOOSE cn \in known : DictGet(n2i, cn) = id
    IN [id \in {DictGet(n2i, cn) : cn \in known} |->
           IF class_tiers[ClassOf(id)] \in DOMAIN tiers
           THEN tiers[class_tiers[ClassOf(id)]] ELSE 100]

\* returns [default_pct, ritpow_modifiers, tiers, class_tiers]
process_config(c, names) ==
    IF IsTierForm(c)
    THEN [default_pct |-> 100,
          ritpow_modifiers |-> TierModifiers(Get(c.tiers), Get(c.class_tiers), names),
          tiers |-> c.tiers, class_tiers |-> c.class_tiers]
    ELSE [default_pct |-> GetOr(c.default, 100),
          ritpow_modifiers |-> GetOr(c.ritpow_modifiers, EmptyDict),
          tiers |-> None, class_tiers |-> None]

\* ------------------------------- tiered: generate_mod_file, per ritual
\* lines 263-266
ClassPct(pcfg, ritual) ==
    IF ritual.ritpow # None /\ Str(Get(ritual.ritpow)) \in DOMAIN pcfg.ritpow_modifiers
    THEN pcfg.ritpow_modifiers[Str(Get(ritual.ritpow))]
    ELSE pcfg.default_pct

\* lines 269-272, level_modifiers = config.get('level_modifiers', {})
LevelPct(c, ritual) ==
    LET level_modifiers == GetOr(c.level_modifiers, EmptyDict)
    IN IF ritual.level # None /\ Str(Get(ritual.level)) \in DOMAIN level_modifiers
       THEN level_modifiers[Str(Get(ritual.level))]
       ELSE 100

\* line 275: percentage = (class_pct * level_pct) // 100
CombineCeil(class_pct, level_pct) == CeilDiv(class_pct * level_pct, 100)
Combine(class_pct, level_pct) == FloorDiv(class_pct * level_pct, 100)

EffectivePct(c, names, ritual) ==
    Combine(ClassPct(process_config(c, names), ritual), LevelPct(c, ritual))

\* line 278: if percentage == 100
SkipsOnClassPct(c, names, ritual) == ClassPct(process_config(c, names), ritual) = 100
Skips(c, names, ritual) == EffectivePct(c, names, ritual) = 100

\* line 283: if ritpow != current_ritpow
NeedsHeader(ritual, current) == ritual.ritpow # current

\* line 284: ritual['ritpow_name'] or f"Unknown ({ritpow})"
HeaderName(ritual) ==
    IF ritual.ritpow_name # None /\ Get(ritual.ritpow_name) # ""
    THEN Get(ritual.ritpow_name)
    ELSE IF ritual.ritpow = None THEN "Unknown (None)"
    ELSE "Unknown (" \o Str(Get(ritual.ritpow)) \o ")"

CostLinesFirstOnly(costs, num, den) ==
    [i \in 1..(IF costs = <<>> THEN 0 ELSE 1) |->
        CostOut(costs[i].type, Scale(costs[i].amount, num, den), costs[i].amount)]
\* lines 290-299: the cost lines of one ritual at percentage num/den
CostLines(costs, num, den) ==
    [i \in 1..Len(costs) |->
        CostOut(costs[i].type, Scale(costs[i].amount, num, den), costs[i].amount)]

\* lines 283-301: what one emitted ritual appends to the file
RitualLines(ritual, pct, current) ==
    (IF NeedsHeader(ritual, current)
     THEN <<Blank, SectionOut(HeaderName(ritual), pct), Blank>> ELSE <<>>)
    \o <<SelectRitualOut(ritual.name)>>
    \o CostLines(ritual.costs, pct, 1)
    \o <<Blank>>

\* ---------------------- tiered: generate_mod_file, the head of the file
\* lines 199-203
TitleLines ==
    <<Comment("# OBM Tiered Ritual Cost Modifier"), Comment("# "),
      Comment("# This mod adjusts ritual costs by class/ritual power type."),
      Comment("# Generated from Ritual Data v5.33.c5m"), Comment("# ")>>

BASE_CONTENT == "content of the base mod"

\* lines 206-220: `if base_mod:` and `if base_path.exists():`
BaseLines(c, base_exists) ==
    IF c.base_mod # None /\ Get(c.base_mod) # "" /\ base_exists
    THEN <<Rule, Out("base_mod", Get(c.base_mod), 0, 0, 0, ""),
           Comment("# (Our changes below override any conflicts)"), Rule, Blank,
           BaseOut(BASE_CONTENT),
           Blank, Blank, Rule, Comment("# OBM MODIFICATIONS START HERE"), Rule,
           Blank>>
    ELSE <<>>

\* lines 222-226
LevelTable(c) ==
    LET lm == GetOr(c.level_modifiers, EmptyDict)
        keys == SortedIntKeys(DOMAIN lm)
    IN IF DOMAIN lm # {}
       THEN <<Comment("# Ritual Level Modifiers:")>>
            \o [i \in 1..Len(keys) |-> Out("level_row", keys[i], lm[keys[i]], 0, 0, "")]
            \o <<Comment("# ")>>
       ELSE <<>>

\* ', '.join(names)
RECURSIVE Join(_)
Join(names) ==
    IF names = <<>> THEN ""
    ELSE IF Len(names) = 1 THEN names[1]
    ELSE names[1] \o ", " \o Join(Tail(names))

\* lines 228-254
ModifierTable(pcfg) ==
    IF pcfg.tiers # None /\ DOMAIN Get(pcfg.tiers) # {}
    THEN LET tiers == Get(pcfg.tiers)
             class_tiers == Get(pcfg.class_tiers)
             tnames == SortedStrings(DOMAIN tiers)
             groups == SortedStrings({class_tiers[cn] : cn \in DOMAIN class_tiers})
             ClassesOf(t) == SortedStrings({cn \in DOMAIN class_tiers : class_tiers[cn] = t})
         IN <<Comment("# Class Tier Definitions:")>>
            \o [i \in 1..Len(tnames) |-> Out("tier_row", tnames[i], tiers[tnames[i]], 0, 0, "")]
            \o <<Comment("# "), Comment("# Class Assignments:")>>
            \o [i \in 1..Len(groups) |->
                   Out("class_row", groups[i], 0, 0, 0, Join(ClassesOf(groups[i])))]
            \o <<Comment("# "), Blank>>
    ELSE IF DOMAIN pcfg.ritpow_modifiers # {}
    THEN LET ids == SortedIntKeys(DOMAIN pcfg.ritpow_modifiers)
         IN <<Out("default_row", "", pcfg.default_pct, 0, 0, ""), Comment("# "),
              Comment("# Custom modifiers:")>>
            \o [i \in 1..Len(ids) |->
                   Out("ritpow_row", ids[i], pcfg.ritpow_modifiers[ids[i]], 0, 0, "")]
            \o <<Comment("# "), Blank>>
    ELSE <<Blank>>

\* everything generate_mod_file writes before its loop over the rituals
BaseFirstHead(c, names, base_exists) ==
    BaseLines(c, base_exists) \o TitleLines \o LevelTable(c)
    \o ModifierTable(process_config(c, names))
HeadLines(c, names, base_exists) ==
    TitleLines \o BaseLines(c, base_exists) \o LevelTable(c)
    \o ModifierTable(process_config(c, names))

\* ------------------------------- tiered: generate_spawn_modifications
\* lines 315-319
SpawnHead(spawn_modifier) ==
    <<Blank, Rule, Comment("# SPAWN RATE MODIFICATIONS"), Rule,
      Out("spawn_modifier_row", "", spawn_modifier, 0, 0, ""), Comment("# "), Blank>>

\* lines 322-338: one monster
MonsterLinesNoComment(monster, spawn_modifier) ==
    <<SelectMonsterOut(monster.name)>>
    \o [i \in 1..Len(monster.spawns) |->
           SpawnOut(monster.spawns[i].trait,
                    Scale(monster.spawns[i].value, spawn_modifier, 1),
                    monster.spawns[i].value, "")]
    \o <<Blank>>
MonsterLines(monster, spawn_modifier) ==
    <<SelectMonsterOut(monster.name)>>
    \o [i \in 1..Len(monster.spawns) |->
           SpawnOut(monster.spawns[i].trait,
                    Scale(monster.spawns[i].value, spawn_modifier, 1),
                    monster.spawns[i].value, monster.spawns[i].comment)]
    \o <<Blank>>

RECURSIVE AllMonsterLines(_, _)
AllMonsterLines(ms, spawn_modifier) ==
    IF ms = <<>> THEN <<>>
    ELSE MonsterLines(Head(ms), spawn_modifier)
         \o AllMonsterLines(Tail(ms), spawn_modifier)

\* line 471 (and line 309): the pass runs only if spawn_modifier != 100
SpawnRuns(spawn_modifier) == spawn_modifier # 100

\* ------------------------------------------------- flat: generate_mod_file
\* lines 87-93; the percentage is num/den
FlatHead(num, den, n) ==
    <<Comment("# OBM Ritual Cost Modifier"), Comment("# "),
      Out("flat_percentage_row", "", num, den, 0, ""),
      Comment("# Generated from Ritual Data v5.33.c5m"), Comment("# "),
      Out("total_row", "", n, 0, 0, ""), Comment("# "), Blank>>

\* lines 96-113: one ritual
FlatRitualLines(ritual, num, den) ==
    <<SelectRitualOut(ritual.name)>> \o CostLines(ritual.costs, num, den) \o <<Blank>>

\* ------------------------------------------------------ inputs of a run
\* "Ritual Data v5.33.c5m": up to MaxRituals rituals, each one of these blocks
RitualBlock(name, k) ==
    CASE k = 1 -> <<NewRitualLine(name), CostLine(0, 10)>>
      [] k = 2 -> <<NewRitualLine(name), RitpowLine(3, "A"), LevelLine(5), CostLine(0, 10)>>
      [] k = 3 -> <<NewRitualLine(name), RitpowLine(3, "A"), CostLine(1, 1), CostLine(25, 3)>>
      [] k = 4 -> <<NewRitualLine(name), RitpowLine(4, "B"), CostLine(0, 0)>>
      [] k = 5 -> <<NewRitualLine(name), RitpowLine(3, "B"), CostLine(0, 10)>>
      [] k = 6 -> <<NewRitualLine(name), CostLine(2, 7), RitpowLine(4, "A"), LevelLine(5)>>
BlockKinds == 1..6

RECURSIVE FileOf(_, _)
FileOf(kinds, i) ==
    IF i > Len(kinds) THEN <<>>
    ELSE RitualBlock("R" \o Str(i), kinds[i]) \o FileOf(kinds, i + 1)

RitualFiles ==
    {FileOf(kinds, 1) : kinds \in UNION {[1..n -> BlockKinds] : n \in 0..MaxRituals}}

\* "Monster Data v5.33.c5m"
MonsterFiles ==
    {<<NewMonsterLine("M1"), SpawnLine("spawnmon", 5, None),
       SpawnLine("motherspawn", 1, Some("hydra")),
       NewMonsterLine("M2"), SpawnLine("spawn1d6mon", 0, Some(""))>>,
     <<NewMonsterLine("M1"), OtherLine,
       NewMonsterLine("M2"), SpawnLine("satyrspawn", 3, Some("boost"))>>}

\* the configuration documents
Configs ==
    {Cfg(None, None, None, None, None, None, None),
     Cfg(None, None, Some(50), None, Some("5" :> 75), Some(150), None),
     Cfg(None, None, Some(100), Some("3" :> 50), Some("5" :> 200), None,
         Some("base.c5m")),
     Cfg(None, None, None, Some("3" :> 50 @@ "4" :> 30), Some("5" :> 80),
         Some(100), None),
     Cfg(Some("S" :> 50 @@ "T" :> 150), Some("A" :> "S" @@ "B" :> "T"), Some(30),
         None, None, Some(50), Some("base.c5m")),
     Cfg(Some("S" :> 50), Some("A" :> "S"), Some(30), None, Some("5" :> 200),
         None, None),
     Cfg(Some("S" :> 50), None, Some(70), None, None, None, None),
     Cfg(Some("S" :> 50), Some("A" :> "X" @@ "B" :> "S"), None, None, None,
         None, None)}

\* sys.argv[1] of the flat generator: text that float() rejects, or num/den
PctArg(numeric, num, den) == [numeric |-> numeric, num |-> num, den |-> den]
FlatArgvs ==
    {<<>>, <<PctArg(FALSE, 0, 1)>>, <<PctArg(TRUE, 0 - 50, 1)>>,
     <<PctArg(TRUE, 0, 1)>>, <<PctArg(TRUE, 1, 2)>>, <<PctArg(TRUE, 75, 2)>>,
     <<PctArg(TRUE, 50, 1)>>, <<PctArg(TRUE, 100, 1)>>, <<PctArg(TRUE, 150, 1)>>}
TieredArgvs ==
    {<<>>, <<"--list-ritpows">>, <<"--generate-config">>, <<"balance.json">>}

\* ------------------------------------------------------------ the runs
Init ==
    /\ prog \in {"flat", "tiered"}
    /\ pc = "start"
    /\ Idle
    /\ argv \in (IF prog = "flat" THEN FlatArgvs ELSE TieredArgvs)

\* sys.exit(code)
Exit(code) == exit_code' = Some(code) /\ pc' = "done"
Present(e) == IF e THEN "present" ELSE "missing"

ParseState == <<lines, rituals, current_ritual, ritpow_names, monsters, current_monster>>
LoopState ==
    <<idx, percentage, current_ritpow, modified_count, skipped_count, spawn_modified>>

\* ---- flat: main, lines 119-121
FlatUsage ==
    /\ prog = "flat" /\ pc = "start" /\ argv = <<>>
    /\ Exit(1)
    /\ UNCHANGED <<prog, argv, fs, config, output>>
    /\ UNCHANGED ParseState /\ UNCHANGED LoopState

\* lines 123-131: float(sys.argv[1]) and `if percentage <= 0`
FlatAcceptsZero(a) == a.numeric /\ a.num >= 0
FlatAccepts(a) == a.numeric /\ a.num > 0

FlatPercentage ==
    /\ prog = "flat" /\ pc = "start" /\ argv # <<>>
    /\ IF FlatAccepts(argv[1])
       THEN /\ percentage' = Some(<<argv[1].num, argv[1].den>>)
            /\ pc' = "check_data"
            /\ UNCHANGED exit_code
       ELSE /\ Exit(1)
            /\ UNCHANGED percentage
    /\ UNCHANGED <<prog, argv, fs, config, output, idx, current_ritpow,
                   modified_count, skipped_count, spawn_modified>>
    /\ UNCHANGED ParseState

\* lines 144-146
FlatCheckData ==
    /\ prog = "flat" /\ pc = "check_data"
    /\ \E e \in BOOLEAN :
         /\ fs' = [fs EXCEPT !.ritual_data = Present(e)]
         /\ IF e THEN pc' = "parse" /\ UNCHANGED exit_code ELSE Exit(1)
    /\ UNCHANGED <<prog, argv, config, output>>
    /\ UNCHANGED ParseState /\ UNCHANGED LoopState

\* line 149
FlatParse ==
    /\ prog = "flat" /\ pc = "parse"
    /\ \E f \in RitualFiles : rituals' = flat_parse_ritual_data(f)
    /\ pc' = "generate"
    /\ UNCHANGED <<prog, argv, fs, config, output, exit_code, lines,
                   current_ritual, ritpow_names, monsters, current_monster>>
    /\ UNCHANGED LoopState

\* generate_mod_file, lines 85-93
FlatOpen ==
    /\ prog = "flat" /\ pc = "generate"
    /\ output' = Some(FlatHead(Get(percentage)[1], Get(percentage)[2], Len(rituals)))
    /\ idx' = 0
    /\ pc' = "ritual_loop"
    /\ UNCHANGED <<prog, argv, fs, config, exit_code, percentage, current_ritpow,
                   modified_count, skipped_count, spawn_modified>>
    /\ UNCHANGED ParseState

\* generate_mod_file, lines 95-113: one ritual
FlatRitual ==
    /\ prog = "flat" /\ pc = "ritual_loop" /\ idx < Len(rituals)
    /\ output' = Some(Get(output) \o FlatRitualLines(rituals[idx + 1],
                          Get(percentage)[1], Get(percentage)[2]))
    /\ idx' = idx + 1
    /\ UNCHANGED <<prog, pc, argv, fs, config, exit_code, percentage,
                   current_ritpow, modified_count, skipped_count, spawn_modified>>
    /\ UNCHANGED ParseState

\* generate_mod_file returns len(rituals); main prints and ends
FlatDone ==
    /\ prog = "flat" /\ pc = "ritual_loop" /\ idx = Len(rituals)
    /\ modified_count' = Len(rituals)
    /\ Exit(0)
    /\ UNCHANGED <<prog, argv, fs, config, output, idx, percentage,
                   current_ritpow, skipped_count, spawn_modified>>
    /\ UNCHANGED ParseState

\* ---- tiered: main, lines 397-403
TieredCheckRitualData ==
    /\ prog = "tiered" /\ pc = "start"
    /\ \E e \in BOOLEAN :
         /\ fs' = [fs EXCEPT !.ritual_data = Present(e)]
         /\ IF e THEN pc' = "check_monster" /\ UNCHANGED exit_code ELSE Exit(1)
    /\ UNCHANGED <<prog, argv, config, output>>
    /\ UNCHANGED ParseState /\ UNCHANGED LoopState

TieredCheckMonsterData ==
    /\ prog = "tiered" /\ pc = "check_monster"
    /\ \E e \in BOOLEAN :
         /\ fs' = [fs EXCEPT !.monster_data = Present(e)]
         /\ IF e THEN pc' = "parse" /\ UNCHANGED exit_code ELSE Exit(1)
    /\ UNCHANGED <<prog, argv, config, output>>
    /\ UNCHANGED ParseState /\ UNCHANGED LoopState

\* lines 406-409
TieredParse ==
    /\ prog = "tiered" /\ pc = "parse"
    /\ \E f \in RitualFiles :
         /\ rituals' = tiered_parse_ritual_data(f).rituals
         /\ ritpow_names' = tiered_parse_ritual_data(f).names
    /\ \E f \in MonsterFiles : monsters' = parse_monster_data(f)
    /\ pc' = "args"
    /\ UNCHANGED <<prog, argv, fs, config, output, exit_code, lines,
                   current_ritual, current_monster>>
    /\ UNCHANGED LoopState

\* lines 412-414
TieredUsage ==
    /\ prog = "tiered" /\ pc = "args" /\ argv = <<>>
    /\ Exit(1)
    /\ UNCHANGED <<prog, argv, fs, config, output>>
    /\ UNCHANGED ParseState /\ UNCHANGED LoopState

\* lines 416-426: --list-ritpows prints; --generate-config writes a template
\* and a reference file, neither of them the mod file
TieredAuxiliary ==
    /\ prog = "tiered" /\ pc = "args" /\ argv # <<>>
    /\ argv[1] \in {"--list-ritpows", "--generate-config"}
    /\ Exit(0)
    /\ UNCHANGED <<prog, argv, fs, config, output>>
    /\ UNCHANGED ParseState /\ UNCHANGED LoopState

\* lines 429-438: json.load(open(config_file))
ConfigLoads(status) == status = "present"

TieredLoadConfig ==
    /\ prog = "tiered" /\ pc = "args" /\ argv # <<>>
    /\ argv[1] \notin {"--list-ritpows", "--generate-config"}
    /\ \E status \in {"missing", "invalid", "present"} :
         /\ fs' = [fs EXCEPT !.config = status]
         /\ IF ConfigLoads(status)
            THEN /\ \E c \in Configs : config' = Some(c)
                 /\ pc' = "check_base"
                 /\ UNCHANGED exit_code
            ELSE /\ Exit(1)
                 /\ UNCHANGED config
    /\ UNCHANGED <<prog, argv, output>>
    /\ UNCHANGED ParseState /\ UNCHANGED LoopState

\* lines 454-460: a missing base mod is a warning; lines 207-209 look again
TieredCheckBase ==
    /\ prog = "tiered" /\ pc = "check_base"
    /\ IF Get(config).base_mod # None /\ Get(Get(config).base_mod) # ""
       THEN \E e \in BOOLEAN : fs' = [fs EXCEPT !.base = Present(e)]
       ELSE UNCHANGED fs
    /\ pc' = "generate"
    /\ UNCHANGED <<prog, argv, config, output, exit_code>>
    /\ UNCHANGED ParseState /\ UNCHANGED LoopState

\* generate_mod_file, lines 189-256: open for writing, head of the file
TieredOpen ==
    /\ prog = "tiered" /\ pc = "generate"
    /\ output' = Some(HeadLines(Get(config), ritpow_names, fs.base = "present"))
    /\ modified_count' = 0 /\ skipped_count' = 0
    /\ current_ritpow' = None
    /\ idx' = 0
    /\ pc' = "ritual_loop"
    /\ UNCHANGED <<prog, argv, fs, config, exit_code, percentage, spawn_modified>>
    /\ UNCHANGED ParseState

\* generate_mod_file, lines 258-302: one ritual
TieredRitual ==
    /\ prog = "tiered" /\ pc = "ritual_loop" /\ idx < Len(rituals)
    /\ LET ritual == rituals[idx + 1]
           pct == EffectivePct(Get(config), ritpow_names, ritual)
       IN /\ percentage' = Some(pct)
          /\ IF Skips(Get(config), ritpow_names, ritual)
             THEN /\ skipped_count' = skipped_count + 1
                  /\ UNCHANGED <<output, current_ritpow, modified_count>>
             ELSE /\ output' = Some(Get(output)
                                    \o RitualLines(ritual, pct, current_ritpow))
                  /\ current_ritpow' =
                       IF NeedsHeader(ritual, current_ritpow)
                       THEN ritual.ritpow ELSE current_ritpow
                  /\ modified_count' = modified_count + 1
                  /\ UNCHANGED skipped_count
    /\ idx' = idx + 1
    /\ UNCHANGED <<prog, pc, argv, fs, config, exit_code, spawn_modified>>
    /\ UNCHANGED ParseState

\* generate_mod_file returns; main, lines 465-467
TieredReturn ==
    /\ prog = "tiered" /\ pc = "ritual_loop" /\ idx = Len(rituals)
    /\ pc' = "spawn"
    /\ UNCHANGED <<prog, argv, fs, config, output, exit_code>>
    /\ UNCHANGED ParseState /\ UNCHANGED LoopState

\* main, lines 470-475, and generate_spawn_modifications: append to the file
TieredSpawn ==
    /\ prog = "tiered" /\ pc = "spawn"
    /\ LET spawn_modifier == GetOr(Get(config).spawn_modifier, 100)
       IN IF SpawnRuns(spawn_modifier)
          THEN /\ output' = Some(Get(output) \o SpawnHead(spawn_modifier)
                                 \o AllMonsterLines(monsters, spawn_modifier))
               /\ spawn_modified' = Some(Len(monsters))
          ELSE UNCHANGED <<output, spawn_modified>>
    /\ Exit(0)
    /\ UNCHANGED <<prog, argv, fs, config, idx, percentage, current_ritpow,
                   modified_count, skipped_count>>
    /\ UNCHANGED ParseState

Next ==
    \/ FlatUsage
    \/ FlatPercentage
    \/ FlatCheckData
    \/ FlatParse
    \/ FlatOpen
    \/ FlatRitual
    \/ FlatDone
    \/ TieredCheckRitualData
    \/ TieredCheckMonsterData
    \/ TieredParse
    \/ TieredUsage
    \/ TieredAuxiliary
    \/ TieredLoadConfig
    \/ TieredCheckBase
    \/ TieredOpen
    \/ TieredRitual
    \/ TieredReturn
    \/ TieredSpawn

Spec == Init /\ [][Next]_vars

\* ----------------------------------------------------- reading the output
LinesOf(o) == IF o = None THEN <<>> ELSE Get(o)
\* the lines a step appended to the output file
Appended == SubSeq(LinesOf(output'), Len(LinesOf(output)) + 1, Len(LinesOf(output')))
OnlyAppends ==
    /\ Len(LinesOf(output')) >= Len(LinesOf(output))
    /\ SubSeq(LinesOf(output'), 1, Len(LinesOf(output))) = LinesOf(output)
KindCount(ls, t) == Cardinality({i \in 1..Len(ls) : ls[i].t = t})
TieredLooping == prog = "tiered" /\ pc = "ritual_loop"

\* v is max(1, ceil(original * num / (100 * den))), said without computing it
IsScaled(v, original, num, den) ==
    /\ v >= 1
    /\ v * 100 * den >= original * num
    /\ v = 1 \/ (v - 1) * 100 * den < original * num
    /\ (num = 100 * den /\ original >= 1) => v = original

(* C1: every value a step writes (a ritual cost of the flat generator, a    *)
(* ritual cost of the tiered generator, a monster spawn value) is           *)
(* max(1, ceil(original * p / 100)) for the percentage p in force, so it is *)
(* at least 1, and at p = 100 it is the original when the original is >= 1. *)
C1_ScalingRule ==
    [][\A i \in 1..Len(Appended) :
          /\ Appended[i].t = "cost" =>
               IF prog = "flat"
               THEN IsScaled(Appended[i].b, Appended[i].c,
                             Get(percentage')[1], Get(percentage')[2])
               ELSE IsScaled(Appended[i].b, Appended[i].c, Get(percentage'), 1)
          /\ Appended[i].t = "spawn" =>
               IsScaled(Appended[i].a, Appended[i].b,
                        GetOr(Get(config).spawn_modifier, 100), 1)]_vars

\* a finished tiered run wrote a cost clamped from 0 to 1, a cost rounded up
\* from 1.5 to 2 and a spawn value rounded up from 0.5 to 1
C1_Witness ==
    /\ prog = "tiered" /\ pc = "done" /\ output # None
    /\ \E i \in 1..Len(Get(output)) :
         Get(output)[i].t = "cost" /\ Get(output)[i].c = 0 /\ Get(output)[i].b = 1
    /\ \E i \in 1..Len(Get(output)) :
         Get(output)[i].t = "cost" /\ Get(output)[i].c = 3 /\ Get(output)[i].b = 2
    /\ \E i \in 1..Len(Get(output)) :
         Get(output)[i].t = "spawn" /\ Get(output)[i].b = 1 /\ Get(output)[i].a = 1
    /\ \E i \in 1..Len(Get(output)) :
         Get(output)[i].t = "spawn" /\ Get(output)[i].b = 5 /\ Get(output)[i].a = 3

(* C2: in the tiered ritual pass a ritual is skipped exactly when its       *)
(* effective percentage is 100; a skipped ritual adds one to the skipped    *)
(* count and writes nothing; any other ritual is written as one             *)
(* selectritual line of its name and one cost line per original cost, in    *)
(* order, and leaves the skipped count alone.                               *)
C2_SkipRule ==
    [][(TieredLooping /\ idx' = idx + 1) =>
          LET ritual == rituals[idx + 1]
              costs == SelectSeq(Appended, LAMBDA l : l.t = "cost")
          IN /\ percentage' # None
             /\ IF Get(percentage') = 100
                THEN /\ skipped_count' = skipped_count + 1
                     /\ modified_count' = modified_count
                     /\ output' = output
                ELSE /\ skipped_count' = skipped_count
                     /\ modified_count' = modified_count + 1
                     /\ OnlyAppends
                     /\ KindCount(Appended, "selectritual") = 1
                     /\ \E i \in 1..Len(Appended) :
                          /\ Appended[i] = SelectRitualOut(ritual.name)
                          /\ \A j \in 1..Len(Appended) :
                               Appended[j].t = "cost" => j > i
                     /\ Len(costs) = Len(ritual.costs)
                     /\ \A k \in 1..Len(costs) :
                          /\ costs[k].a = ritual.costs[k].type
                          /\ costs[k].c = ritual.costs[k].amount]_vars

\* a ritual was skipped whose category and level percentages are both not
\* 100, and another one was written
C2_Witness ==
    /\ TieredLooping /\ idx >= 1
    /\ percentage = Some(100)
    /\ skipped_count >= 1 /\ modified_count >= 1
    /\ ClassPct(process_config(Get(config), ritpow_names), rituals[idx]) # 100
    /\ LevelPct(Get(config), rituals[idx]) # 100

\* the flat-form percentages of a ritual, read from the configuration document
FlatFormCategoryPct(c, ritual) ==
    IF /\ ritual.ritpow # None
       /\ c.ritpow_modifiers # None
       /\ Str(Get(ritual.ritpow)) \in DOMAIN Get(c.ritpow_modifiers)
    THEN Get(c.ritpow_modifiers)[Str(Get(ritual.ritpow))]
    ELSE IF c.default # None THEN Get(c.default) ELSE 100
FlatFormLevelPct(c, ritual) ==
    IF /\ ritual.level # None
       /\ c.level_modifiers # None
       /\ Str(Get(ritual.level)) \in DOMAIN Get(c.level_modifiers)
    THEN Get(c.level_modifiers)[Str(Get(ritual.level))]
    ELSE 100

(* C3: when the configuration is not in tier form, the percentage of the    *)
(* ritual just processed is floor(category * level / 100), where category   *)
(* is ritpow_modifiers[id] if the ritual has a category id with an entry    *)
(* and else `default` (100 when absent), and level is level_modifiers[level]*)
(* if the ritual has a level with an entry and else 100.                    *)
C3_FlatFormResolution ==
    (TieredLooping /\ idx >= 1 /\ ~IsTierForm(Get(config))) =>
        LET product == FlatFormCategoryPct(Get(config), rituals[idx])
                       * FlatFormLevelPct(Get(config), rituals[idx])
        IN /\ percentage # None
           /\ 100 * Get(percentage) <= product
           /\ product < 100 * (Get(percentage) + 1)

\* the example of the specification: category 50, level 5 at 80, cost 10
\* gives 40 and a new cost of 4
C3_Witness ==
    /\ TieredLooping /\ idx >= 1 /\ ~IsTierForm(Get(config))
    /\ FlatFormCategoryPct(Get(config), rituals[idx]) = 50
    /\ FlatFormLevelPct(Get(config), rituals[idx]) = 80
    /\ percentage = Some(40)
    /\ Get(output)[Len(Get(output)) - 1] = CostOut(0, 4, 10)

\* the category percentage the tier form assigns to a ritual by its name
TierOfName(c, ritual) == Get(c.class_tiers)[Get(ritual.ritpow_name)]
HasAssignment(c, ritual) ==
    ritual.ritpow_name # None /\ Get(ritual.ritpow_name) \in DOMAIN Get(c.class_tiers)

(* C4: in tier form every parsed ritual whose category display name is a    *)
(* key of class_tiers gets the percentage of the tier assigned to that name,*)
(* and every ritual whose category has no assignment gets 100, whichever    *)
(* ids and names the source file pairs.                                     *)
C4_TierFormResolution ==
    (TieredLooping /\ idx >= 1 /\ IsTierForm(Get(config))) =>
        LET c == Get(config)
            ritual == rituals[idx]
            used == ClassPct(process_config(c, ritpow_names), ritual)
        IN IF HasAssignment(c, ritual)
           THEN TierOfName(c, ritual) \in DOMAIN Get(c.tiers)
                    => used = Get(c.tiers)[TierOfName(c, ritual)]
           ELSE used = 100

\* the error conditions of a run, as the run saw them
DataMissing == fs.ritual_data = "missing" \/ fs.monster_data = "missing"
ConfigUnusable == fs.config \in {"missing", "invalid"}
BadPercentage ==
    prog = "flat" /\ argv # <<>> /\ (~argv[1].numeric \/ argv[1].num <= 0)

(* C6: a missing data file, a missing or unparseable configuration file     *)
(* and, in the flat generator, a non-numeric or <= 0 percentage each end    *)
(* the run with a non-zero exit status, and the output file is never        *)
(* opened in such a run.                                                    *)
C6_FatalBeforeOutput ==
    /\ (DataMissing \/ ConfigUnusable) =>
          pc = "done" /\ exit_code = Some(1) /\ output = None
    /\ BadPercentage =>
          /\ pc \in {"start", "done"}
          /\ output = None
          /\ pc = "done" => exit_code = Some(1)

\* the tiered generator stopped on a configuration that is not JSON, after
\* both data files were parsed
C6_Witness ==
    /\ prog = "tiered" /\ fs.config = "invalid" /\ rituals # <<>>
    /\ pc = "done" /\ exit_code = Some(1) /\ output = None

\* the selectritual lines of the output and the rituals they select
SelectAt(out) == {i \in 1..Len(out) : out[i].t = "selectritual"}
RitualNamed(n) == rituals[CHOOSE k \in 1..Len(rituals) : rituals[k].name = n]
HeaderBefore(out, i) ==
    i >= 4 /\ out[i - 1] = Blank /\ out[i - 2].t = "section" /\ out[i - 3] = Blank
PreviousSelect(out, i) ==
    CHOOSE j \in SelectAt(out) : j < i /\ \A k \in SelectAt(out) : k < i => k <= j

(* C8: in the tiered ritual pass a section-break comment naming the         *)
(* category is written immediately before an emitted ritual exactly when    *)
(* its category id differs from that of the previously emitted ritual or it *)
(* is the first emitted ritual; no section break stands anywhere else, so a *)
(* skipped ritual never causes one.                                         *)
C8_SectionBreaks ==
    (prog = "tiered" /\ output # None) =>
        LET out == Get(output)
        IN /\ \A i \in SelectAt(out) :
                /\ HeaderBefore(out, i) <=>
                     \/ \A j \in SelectAt(out) : j >= i
                     \/ /\ \E j \in SelectAt(out) : j < i
                        /\ RitualNamed(out[i].s).ritpow
                             # RitualNamed(out[PreviousSelect(out, i)].s).ritpow
                /\ HeaderBefore(out, i) =>
                     out[i - 2].s = HeaderName(RitualNamed(out[i].s))
           /\ \A j \in 1..Len(out) :
                out[j].t = "section" => (j + 2) \in SelectAt(out)

\* the lines that bracket the base mod
BaseOpening(c) ==
    <<Rule, Out("base_mod", Get(c.base_mod), 0, 0, 0, ""),
      Comment("# (Our changes below override any conflicts)"), Rule, Blank>>
BaseClosing ==
    <<Blank, Blank, Rule, Comment("# OBM MODIFICATIONS START HERE"), Rule, Blank>>
BaseConfigured == config # None /\ Get(config).base_mod # None
IsBasePart(l) == l.t \in {"base", "base_mod"} \/ l = Comment("# OBM MODIFICATIONS START HERE")

(* C9 as stated: when base_mod is configured and the file exists, the       *)
(* bracketed content of the base mod is the first thing in the output:      *)
(* nothing the generator produces itself stands before it.                  *)
C9_BaseWrittenFirst ==
    (prog = "tiered" /\ output # None /\ BaseConfigured /\ fs.base = "present") =>
        LET out == Get(output)
            open == BaseOpening(Get(config))
        IN /\ SubSeq(out, 1, Len(open)) = open
           /\ out[Len(open) + 1] = BaseOut(BASE_CONTENT)

(* C9 as the code has it: when base_mod is configured and the file exists,  *)
(* the output starts with the five title comment lines, directly followed   *)
(* by the whole content of the base mod between the BASE MOD and OBM        *)
(* MODIFICATIONS START HERE delimiters, and all other generated content     *)
(* (tables, section breaks, rituals, spawn section) comes after it; when    *)
(* base_mod is configured and the file is missing the run goes on and the   *)
(* output is the one of the same configuration without base_mod.            *)
C9_BaseAfterTitle ==
    (prog = "tiered" /\ output # None /\ BaseConfigured) =>
        LET out == Get(output)
            c == Get(config)
            block == BaseOpening(c) \o <<BaseOut(BASE_CONTENT)>> \o BaseClosing
            n == Len(TitleLines)
            without == HeadLines([c EXCEPT !.base_mod = None], ritpow_names, FALSE)
        IN /\ SubSeq(out, 1, n) = TitleLines
           /\ fs.base = "present" =>
                /\ SubSeq(out, n + 1, n + Len(block)) = block
                /\ \A i \in 1..Len(out) :
                     IsBasePart(out[i]) => (i > n /\ i <= n + Len(block))
                /\ \A i \in 1..Len(out) :
                     out[i].t \notin {"comment", "blank", "base", "base_mod"}
                         => i > n + Len(block)
           /\ fs.base = "missing" =>
                /\ exit_code # Some(1)
                /\ \A i \in 1..Len(out) : ~IsBasePart(out[i])
                /\ SubSeq(out, 1, Len(without)) = without

\* a finished run that wrote the base mod, tables and rituals
C9_Witness ==
    /\ prog = "tiered" /\ pc = "done" /\ exit_code = Some(0)
    /\ BaseConfigured /\ fs.base = "present"
    /\ output # None /\ modified_count >= 2
    /\ \E i \in 1..Len(Get(output)) : Get(output)[i] = BaseOut(BASE_CONTENT)

\* lines written for the monsters before the k-th one
RECURSIVE SpawnOffset(_)
SpawnOffset(k) ==
    IF k <= 1 THEN 0
    ELSE SpawnOffset(k - 1) + Len(monsters[k - 1].spawns) + 2

(* C10: the spawn pass runs only if the spawn scalar is not 100; at 100     *)
(* nothing is appended and no monster is counted.  When it runs it only     *)
(* appends, after the ritual pass, a section header and, for every parsed   *)
(* monster in source order, one selectmonster line followed by exactly one  *)
(* re-scaled line per spawn attribute in order, annotated `was <original>`  *)
(* and then the annotation of the source line if it had one.                *)
C10_SpawnPass ==
    [][(prog = "tiered" /\ pc = "spawn" /\ pc' = "done") =>
          LET sm == GetOr(Get(config).spawn_modifier, 100)
              body == SubSeq(Appended, 8, Len(Appended))
          IN IF sm = 100
             THEN output' = output /\ spawn_modified' \in {None, Some(0)}
             ELSE /\ OnlyAppends
                  /\ Len(Appended) = 7 + SpawnOffset(Len(monsters) + 1)
                  /\ Appended[3] = Comment("# SPAWN RATE MODIFICATIONS")
                  /\ Appended[5] = Out("spawn_modifier_row", "", sm, 0, 0, "")
                  /\ spawn_modified' = Some(Len(monsters))
                  /\ \A k \in 1..Len(monsters) :
                       LET at == SpawnOffset(k)
                           spawns == monsters[k].spawns
                       IN /\ body[at + 1] = SelectMonsterOut(monsters[k].name)
                          /\ body[at + Len(spawns) + 2] = Blank
                          /\ \A i \in 1..Len(spawns) :
                               /\ body[at + 1 + i].t = "spawn"
                               /\ body[at + 1 + i].s = spawns[i].trait
                               /\ body[at + 1 + i].b = spawns[i].value
                               /\ body[at + 1 + i].x = spawns[i].comment
                               /\ IsScaled(body[at + 1 + i].a, spawns[i].value,
                                           sm, 1)]_vars

\* a finished run with ritual output, two monsters, and spawn lines with and
\* without an annotation
C10_Witness ==
    /\ prog = "tiered" /\ pc = "done" /\ spawn_modified = Some(2)
    /\ output # None
    /\ \E i, j, k \in 1..Len(Get(output)) :
         /\ i < j /\ i < k
         /\ Get(output)[i].t = "cost"
         /\ Get(output)[j].t = "spawn" /\ Get(output)[j].x = "hydra"
         /\ Get(output)[k].t = "spawn" /\ Get(output)[k].x = ""

\* the number of cost lines the rituals selected in out were parsed with
RECURSIVE CostsOfSelected(_, _)
CostsOfSelected(out, i) ==
    IF i > Len(out) THEN 0
    ELSE (IF out[i].t = "selectritual" THEN Len(RitualNamed(out[i].s).costs) ELSE 0)
         + CostsOfSelected(out, i + 1)

(* C11: at every point of the tiered ritual pass modified_count +           *)
(* skipped_count is the number of rituals processed so far, so the pair     *)
(* returned sums to the number of parsed rituals; modified_count is the     *)
(* number of selectritual lines written, each for a different processed     *)
(* ritual, and the number of cost lines written is the sum of the cost      *)
(* counts of the rituals written.                                           *)
C11_CountConservation ==
    (prog = "tiered" /\ output # None) =>
        LET out == Get(output)
        IN /\ modified_count + skipped_count = idx
           /\ pc \in {"spawn", "done"} =>
                modified_count + skipped_count = Len(rituals)
           /\ modified_count = KindCount(out, "selectritual")
           /\ \A i \in SelectAt(out) :
                \E k \in 1..idx : rituals[k].name = out[i].s
           /\ \A i, j \in SelectAt(out) : out[i].s = out[j].s => i = j
           /\ KindCount(out, "cost") = CostsOfSelected(out, 1)

\* the pass returned after skipping a ritual and writing two, one of them
\* with two costs
C11_Witness ==
    /\ prog = "tiered" /\ pc = "spawn"
    /\ skipped_count = 1 /\ modified_count = 2
    /\ KindCount(Get(output), "cost") = 3

\* the (name, costs) records of a parser's result
NameAndCosts(rs) ==
    [k \in 1..Len(rs) |-> [name |-> rs[k].name, costs |-> rs[k].costs]]

(* C12: on every file the flat script's ritual parser and the tiered         *)
(* script's ritual parser return the same sequence of (ritual name, list of *)
(* (resource type, amount)) records, whatever the file holds: indented      *)
(* lines, trailing comments, names with a '#' in them, ritpow and level     *)
(* lines between cost lines.                                                *)
C12_ParsersAgree ==
    pc = "returned" =>
        /\ prog = "flat_parse_ritual_data" =>
             rituals = NameAndCosts(tiered_parse_ritual_data(lines).rituals)
        /\ prog = "tiered_parse_ritual_data" =>
             NameAndCosts(rituals) = flat_parse_ritual_data(lines)

====
